---- MODULE Spec2Model ----
(***************************************************************************)
(* Model of src/api/chrome.js: the snooze list kept per user in            *)
(* chrome.storage.sync and the badge counter kept beside it.               *)
(*                                                                         *)
(* Every call of the chrome.storage / chrome.runtime API is one atomic     *)
(* step; an async function is a sequence of such steps (one per await),    *)
(* with its local variables kept per caller between the steps.             *)
(***************************************************************************)
EXTENDS Integers, Sequences, FiniteSets, TLC

VARIABLES
  sync,          \* chrome.storage.sync: a function from the keys present to their values
  pc,            \* per caller: the await the call in flight is suspended at
  op,            \* per caller: the exported function called
  userId,        \* per caller: the userId argument
  snooze,        \* per caller: the snooze / wantedSnooze argument
  url,           \* per caller: the url argument of checkUrlAlreadySnoozed
  increment,     \* per caller: the increment argument of incrementBadgeCounter
  snoozeList,    \* per caller: the local snoozeList / updatedList
  badgeCounter,  \* per caller: the local badgeCounter
  ret,           \* per caller: the value the call resolved to
  sent,          \* per caller: the messages the call passed to chrome.runtime.sendMessage
  pre            \* chrome.storage.sync as it was when the latest call was made

vars == <<sync, pc, op, userId, snooze, url, increment, snoozeList,
          badgeCounter, ret, sent, pre>>

----------------------------------------------------------------------------
(* Bounds and input sets *)

MaxStored == 2
MaxListed == 3
MaxBadge == 3
MaxDebt == 1

Callers == {1, 2}
SeqCallers == {1}

Users == {"u1", "u2"}
SeqUsers == {"u1"}

Rec(i, u, n, b) == [id |-> i, url |-> u, notifyAt |-> n, badgeCount |-> b]

\* urls are sequences of characters
Records == {Rec(i, <<"a">>, n, b) : i \in {1, 2}, n \in {100, 200}, b \in BOOLEAN}
Queries == {<<"a">>, <<"b">>}

StoredUrls == {<<"a">>, <<"a", "x">>, <<"1", "x">>, <<"b">>}
UrlRecords == {Rec(1, u, 100, b) : u \in StoredUrls, b \in BOOLEAN}
UrlQueries == {<<"a">>, <<"a", "x">>, <<"a", "x", "y">>, <<"1">>, <<"c">>, <<>>}

ListRecords == {Rec(i, <<"a">>, n, FALSE) : i \in {1, 2}, n \in {100, 200}}

ConcRecords == {Rec(1, <<"a">>, 200, FALSE), Rec(2, <<"a">>, 100, FALSE)}

Increments == {1, -1}

NoSnooze == Rec(0, <<>>, 0, FALSE)

----------------------------------------------------------------------------
(* Constants of the program *)

SK_BADGE_COUNTER == "badgeCounter"
ACTION_UPDATE_BADGE_COUNTER == "ACTION_UPDATE_BADGE_COUNTER"

----------------------------------------------------------------------------
(* chrome.storage.sync *)

\* chrome.storage.sync.set({ [key]: value })
writeToSyncStorage(storage, key, value) ==
  [k \in (DOMAIN storage) \cup {key} |-> IF k = key THEN value ELSE storage[k]]

\* Array.prototype.sort((x, y) => x.notifyAt - y.notifyAt): a stable sort
RECURSIVE InsertByNotifyAt(_, _)
InsertByNotifyAt(sorted, x) ==
  IF sorted = <<>> THEN <<x>>
  ELSE IF sorted[Len(sorted)].notifyAt - x.notifyAt <= 0
       THEN Append(sorted, x)
       ELSE Append(InsertByNotifyAt(SubSeq(sorted, 1, Len(sorted) - 1), x),
                   sorted[Len(sorted)])

RECURSIVE SortPrefix(_, _)
SortPrefix(list, n) ==
  IF n = 0 THEN <<>> ELSE InsertByNotifyAt(SortPrefix(list, n - 1), list[n])

SortByNotifyAt(list) == SortPrefix(list, Len(list))

\* getSnoozeList without the sort of line 88
getSnoozeListAsStored(storage, user) ==
  IF user \in DOMAIN storage THEN storage[user] ELSE <<>>

\* lines 86-90
getSnoozeList(storage, user) ==
  IF user \in DOMAIN storage THEN SortByNotifyAt(storage[user]) ELSE <<>>

\* a set that keeps the stored records the written list lacks, instead of replacing the value
setSnoozeListMerged(storage, user, list) ==
  writeToSyncStorage(storage, user,
    list \o SelectSeq(getSnoozeListAsStored(storage, user),
                      LAMBDA s : \A i \in 1..Len(list) : list[i] # s))

\* line 100
setSnoozeList(storage, user, list) == writeToSyncStorage(storage, user, list)

\* a filter that compares whole records instead of ids
filterBySnooze(list, wanted) == SelectSeq(list, LAMBDA s : s # wanted)

\* snoozeList.filter(s => s.id !== snooze.id)
filterById(list, wanted) == SelectSeq(list, LAMBDA s : s.id # wanted.id)

\* a map that appends wantedSnooze when no record has its id
mapOrInsert(list, wantedSnooze) ==
  IF \E i \in 1..Len(list) : list[i].id = wantedSnooze.id
  THEN [i \in 1..Len(list) |-> IF list[i].id = wantedSnooze.id THEN wantedSnooze ELSE list[i]]
  ELSE Append(list, wantedSnooze)

\* snoozeList.map(currentSnooze => currentSnooze.id === wantedSnooze.id ? wantedSnooze : currentSnooze)
mapById(list, wantedSnooze) ==
  [i \in 1..Len(list) |-> IF list[i].id = wantedSnooze.id THEN wantedSnooze ELSE list[i]]

\* a push that skips a snooze whose id the list holds
pushUnlessStored(list, s) ==
  IF \E i \in 1..Len(list) : list[i].id = s.id THEN list ELSE Append(list, s)

\* snoozeList.push(snooze)
push(list, s) == Append(list, s)

----------------------------------------------------------------------------
(* checkUrlAlreadySnoozed's predicate *)

Digits == <<"0", "1", "2", "3", "4", "5", "6", "7", "8", "9">>
IsDigit(c) == \E d \in 1..Len(Digits) : Digits[d] = c
DigitValue(c) == (CHOOSE d \in 1..Len(Digits) : Digits[d] = c) - 1

RECURSIVE DecimalValue(_, _)
DecimalValue(str, n) ==
  IF n = 0 THEN 0 ELSE 10 * DecimalValue(str, n - 1) + DigitValue(str[n])

\* The number a string is converted to when compared with a number:
\* 0 for the empty string, the value of a decimal literal, NaN otherwise.
ToNumber(str) ==
  IF \A i \in 1..Len(str) : IsDigit(str[i])
  THEN [nan |-> FALSE, val |-> DecimalValue(str, Len(str))]
  ELSE [nan |-> TRUE, val |-> 0]

\* n > m for a number n and a converted operand m: false when m is NaN
GreaterThan(n, m) == ~m.nan /\ n > m.val

\* String.prototype.startsWith
startsWith(str, prefix) ==
  /\ Len(prefix) <= Len(str)
  /\ SubSeq(str, 1, Len(prefix)) = prefix

\* the callback of snoozeList.find
urlFound(snoozeUrl, query) ==
  IF GreaterThan(Len(snoozeUrl), ToNumber(query))
  THEN startsWith(snoozeUrl, query)
  ELSE startsWith(query, snoozeUrl)

\* snoozeFound !== undefined
checkUrlAlreadySnoozed(list, query) ==
  \E i \in 1..Len(list) : urlFound(list[i].url, query)

----------------------------------------------------------------------------
(* Badge counter *)

\* badgeCounter -= increment
subtractIncrement(value, d) == value - d

\* badgeCounter += 1, whatever the increment
addOne(value, d) == value + 1

\* line 183: badgeCounter += increment
addIncrement(value, d) == value + d

\* !badgeCounter of the value read under SK_BADGE_COUNTER: undefined or 0
badgeCounterMissing(storage) ==
  SK_BADGE_COUNTER \notin DOMAIN storage \/ storage[SK_BADGE_COUNTER] = 0

\* what getBadgeCounter resolves to once the key holds a value
storedBadgeCounter(storage) ==
  IF badgeCounterMissing(storage) THEN 0 ELSE storage[SK_BADGE_COUNTER]

----------------------------------------------------------------------------
(* Calls *)

RECURSIVE StoredIn(_, _)
StoredIn(storage, users) ==
  IF users = {} THEN 0
  ELSE LET u == CHOOSE x \in users : TRUE
       IN  (IF u \in DOMAIN storage THEN Len(storage[u]) ELSE 0)
           + StoredIn(storage, users \ {u})

\* the number of snoozes in the store
Stored(storage) == StoredIn(storage, Users)

Idle(p) == pc[p] \in {"idle", "done"}

\* caller p calls the exported function f
Call(p, f, first, u, s, q, d) ==
  /\ Idle(p)
  /\ pc' = [pc EXCEPT ![p] = first]
  /\ op' = [op EXCEPT ![p] = f]
  /\ userId' = [userId EXCEPT ![p] = u]
  /\ snooze' = [snooze EXCEPT ![p] = s]
  /\ url' = [url EXCEPT ![p] = q]
  /\ increment' = [increment EXCEPT ![p] = d]
  /\ snoozeList' = [snoozeList EXCEPT ![p] = <<>>]
  /\ badgeCounter' = [badgeCounter EXCEPT ![p] = 0]
  /\ ret' = [ret EXCEPT ![p] = <<>>]
  /\ sent' = [sent EXCEPT ![p] = <<>>]
  /\ pre' = sync
  /\ UNCHANGED sync

CallAddSnooze(p, users, records, max) ==
  \E u \in users, s \in records :
    /\ Stored(sync) < max   \* bounds the number of stored snoozes
    /\ Call(p, "addSnooze", "addGet", u, s, <<>>, 0)

CallRemoveSnooze(p, users, records) ==
  \E u \in users, s \in records :
    /\ s.badgeCount => storedBadgeCounter(sync) > -MaxDebt
    /\ Call(p, "removeSnooze", "removeGet", u, s, <<>>, 0)

CallUpdateSnooze(p, users, records) ==
  \E u \in users, s \in records :
    Call(p, "updateSnooze", "updateGet", u, s, <<>>, 0)

CallCheckUrlAlreadySnoozed(p, users, queries) ==
  \E u \in users, q \in queries :
    Call(p, "checkUrlAlreadySnoozed", "checkGet", u, NoSnooze, q, 0)

CallIncrementBadgeCounter(p) ==
  \E d \in Increments :
    /\ d > 0 => storedBadgeCounter(sync) < MaxBadge
    /\ d < 0 => storedBadgeCounter(sync) > -MaxDebt
    /\ Call(p, "incrementBadgeCounter", "getBadge", "", NoSnooze, <<>>, d)

args == <<op, userId, snooze, url, pre>>

----------------------------------------------------------------------------
(* addSnooze *)

\* line 110: await getSnoozeList(userId); line 114: push
AddGet(p, max) ==
  /\ pc[p] = "addGet"
  /\ Len(getSnoozeList(sync, userId[p])) < max   \* bounds the list's length
  /\ snoozeList' = [snoozeList EXCEPT ![p] = push(getSnoozeList(sync, userId[p]), snooze[p])]
  /\ pc' = [pc EXCEPT ![p] = "addSet"]
  /\ UNCHANGED <<sync, args, increment, badgeCounter, ret, sent>>

\* the list as persisted, without the sort of line 117
addSnoozeResultAsPersisted(list) == list

\* the value addSnooze returns
addSnoozeResult(list) == SortByNotifyAt(list)

\* line 116: await setSnoozeList(userId, snoozeList); line 117: return the list sorted
AddSet(p) ==
  /\ pc[p] = "addSet"
  /\ sync' = setSnoozeList(sync, userId[p], snoozeList[p])
  /\ ret' = [ret EXCEPT ![p] = addSnoozeResult(snoozeList[p])]
  /\ pc' = [pc EXCEPT ![p] = "done"]
  /\ UNCHANGED <<args, increment, badgeCounter, sent>>
  /\ snoozeList' = [snoozeList EXCEPT ![p] = <<>>]

----------------------------------------------------------------------------
(* removeSnooze *)

\* lines 127-128
RemoveGet(p) ==
  /\ pc[p] = "removeGet"
  /\ snoozeList' = [snoozeList EXCEPT ![p] = filterById(getSnoozeList(sync, userId[p]), snooze[p])]
  /\ pc' = [pc EXCEPT ![p] = "removeSet"]
  /\ UNCHANGED <<sync, args, increment, badgeCounter, ret, sent>>

\* line 132: if (snooze.badgeCount)
decrementsBadge(s) == s.badgeCount

\* line 130, and the test of line 132 with the call of incrementBadgeCounter(-1)
RemoveSet(p) ==
  /\ pc[p] = "removeSet"
  /\ sync' = setSnoozeList(sync, userId[p], snoozeList[p])
  /\ IF decrementsBadge(snooze[p])
     THEN /\ increment' = [increment EXCEPT ![p] = -1]
          /\ pc' = [pc EXCEPT ![p] = "getBadge"]
     ELSE /\ increment' = increment
          /\ pc' = [pc EXCEPT ![p] = "removeReget"]
  /\ UNCHANGED <<args, snoozeList, badgeCounter, ret, sent>>

\* line 134: await sendMessage(ACTION_UPDATE_BADGE_COUNTER, badgeCounter)
SendMessage(p) ==
  /\ pc[p] = "send"
  /\ sent' = [sent EXCEPT ![p] =
                Append(@, [action |-> ACTION_UPDATE_BADGE_COUNTER, msg |-> badgeCounter[p]])]
  /\ pc' = [pc EXCEPT ![p] = "removeReget"]
  /\ UNCHANGED <<sync, args, increment, snoozeList, badgeCounter, ret>>

\* line 137: return await getSnoozeList(userId)
RemoveReget(p) ==
  /\ pc[p] = "removeReget"
  /\ ret' = [ret EXCEPT ![p] = getSnoozeList(sync, userId[p])]
  /\ pc' = [pc EXCEPT ![p] = "done"]
  /\ UNCHANGED <<sync, args, increment, badgeCounter, sent>>
  /\ snoozeList' = [snoozeList EXCEPT ![p] = <<>>]

----------------------------------------------------------------------------
(* updateSnooze *)

\* lines 147-150
UpdateGet(p) ==
  /\ pc[p] = "updateGet"
  /\ snoozeList' = [snoozeList EXCEPT ![p] = mapById(getSnoozeList(sync, userId[p]), snooze[p])]
  /\ pc' = [pc EXCEPT ![p] = "updateSet"]
  /\ UNCHANGED <<sync, args, increment, badgeCounter, ret, sent>>

\* line 152
UpdateSet(p) ==
  /\ pc[p] = "updateSet"
  /\ sync' = setSnoozeList(sync, userId[p], snoozeList[p])
  /\ pc' = [pc EXCEPT ![p] = "updateReget"]
  /\ UNCHANGED <<args, increment, snoozeList, badgeCounter, ret, sent>>

\* line 154
UpdateReget(p) ==
  /\ pc[p] = "updateReget"
  /\ ret' = [ret EXCEPT ![p] = getSnoozeList(sync, userId[p])]
  /\ pc' = [pc EXCEPT ![p] = "done"]
  /\ UNCHANGED <<sync, args, increment, badgeCounter, sent>>
  /\ snoozeList' = [snoozeList EXCEPT ![p] = <<>>]

----------------------------------------------------------------------------
(* checkUrlAlreadySnoozed *)

\* lines 164-173
CheckGet(p) ==
  /\ pc[p] = "checkGet"
  /\ ret' = [ret EXCEPT ![p] = checkUrlAlreadySnoozed(getSnoozeList(sync, userId[p]), url[p])]
  /\ pc' = [pc EXCEPT ![p] = "done"]
  /\ UNCHANGED <<sync, args, increment, snoozeList, badgeCounter, sent>>

----------------------------------------------------------------------------
(* incrementBadgeCounter and getBadgeCounter *)

\* line 231: await readFromSyncStorage([SK_BADGE_COUNTER]); line 232: if (!badgeCounter);
\* line 236 and line 183 when the counter is there
GetBadge(p) ==
  /\ pc[p] = "getBadge"
  /\ IF badgeCounterMissing(sync)
     THEN /\ badgeCounter' = [badgeCounter EXCEPT ![p] = 0]
          /\ pc' = [pc EXCEPT ![p] = "initBadge"]
     ELSE /\ badgeCounter' = [badgeCounter EXCEPT ![p] = addIncrement(sync[SK_BADGE_COUNTER], increment[p])]
          /\ pc' = [pc EXCEPT ![p] = "setBadge"]
  /\ UNCHANGED <<sync, args, increment, snoozeList, ret, sent>>

\* line 233: await writeToSyncStorage({ badgeCounter: initialValue }); line 234: return 0;
\* line 183: badgeCounter += increment
InitBadge(p) ==
  /\ pc[p] = "initBadge"
  /\ sync' = writeToSyncStorage(sync, SK_BADGE_COUNTER, 0)
  /\ badgeCounter' = [badgeCounter EXCEPT ![p] = addIncrement(0, increment[p])]
  /\ pc' = [pc EXCEPT ![p] = "setBadge"]
  /\ UNCHANGED <<args, increment, snoozeList, ret, sent>>

\* line 184: await writeToSyncStorage({ badgeCounter }); line 185: return badgeCounter
SetBadge(p) ==
  /\ pc[p] = "setBadge"
  /\ sync' = writeToSyncStorage(sync, SK_BADGE_COUNTER, badgeCounter[p])
  /\ IF op[p] = "incrementBadgeCounter"
     THEN /\ ret' = [ret EXCEPT ![p] = badgeCounter[p]]
          /\ pc' = [pc EXCEPT ![p] = "done"]
     ELSE /\ ret' = ret
          /\ pc' = [pc EXCEPT ![p] = "send"]
  /\ UNCHANGED <<args, increment, snoozeList, badgeCounter, sent>>

----------------------------------------------------------------------------
(* Specifications *)

Init ==
  /\ sync = [k \in {} |-> 0]
  /\ pc = [p \in Callers |-> "idle"]
  /\ op = [p \in Callers |-> ""]
  /\ userId = [p \in Callers |-> ""]
  /\ snooze = [p \in Callers |-> NoSnooze]
  /\ url = [p \in Callers |-> <<>>]
  /\ increment = [p \in Callers |-> 0]
  /\ snoozeList = [p \in Callers |-> <<>>]
  /\ badgeCounter = [p \in Callers |-> 0]
  /\ ret = [p \in Callers |-> <<>>]
  /\ sent = [p \in Callers |-> <<>>]
  /\ pre = sync

\* the steps of a call in flight
Step(p, max) ==
  \/ AddGet(p, max)
  \/ AddSet(p)
  \/ RemoveGet(p)
  \/ RemoveSet(p)
  \/ SendMessage(p)
  \/ RemoveReget(p)
  \/ UpdateGet(p)
  \/ UpdateSet(p)
  \/ UpdateReget(p)
  \/ CheckGet(p)
  \/ GetBadge(p)
  \/ InitBadge(p)
  \/ SetBadge(p)

\* one caller, every function: each call runs to its end before the next is made
Next ==
  \E p \in SeqCallers :
    \/ CallAddSnooze(p, SeqUsers, Records, MaxStored)
    \/ CallRemoveSnooze(p, SeqUsers, Records)
    \/ CallUpdateSnooze(p, SeqUsers, Records)
    \/ CallCheckUrlAlreadySnoozed(p, SeqUsers, Queries)
    \/ CallIncrementBadgeCounter(p)
    \/ Step(p, MaxStored)

Spec == Init /\ [][Next]_vars

\* one caller, any sequence of addSnooze, removeSnooze and updateSnooze on the lists of two users
NextLists ==
  \E p \in SeqCallers :
    \/ CallAddSnooze(p, Users, ListRecords, MaxListed)
    \/ CallRemoveSnooze(p, Users, ListRecords)
    \/ CallUpdateSnooze(p, Users, ListRecords)
    \/ AddGet(p, MaxListed)
    \/ AddSet(p)
    \/ RemoveGet(p)
    \/ RemoveSet(p)
    \/ RemoveReget(p)
    \/ UpdateGet(p)
    \/ UpdateSet(p)
    \/ UpdateReget(p)

SpecLists == Init /\ [][NextLists]_vars

\* one caller, snoozes that differ in their url
NextUrl ==
  \E p \in SeqCallers :
    \/ CallAddSnooze(p, SeqUsers, UrlRecords, MaxStored)
    \/ CallRemoveSnooze(p, SeqUsers, UrlRecords)
    \/ CallUpdateSnooze(p, SeqUsers, UrlRecords)
    \/ CallCheckUrlAlreadySnoozed(p, SeqUsers, UrlQueries)
    \/ CallIncrementBadgeCounter(p)
    \/ Step(p, MaxStored)

SpecUrl == Init /\ [][NextUrl]_vars

\* two callers adding to and removing from the lists of two users, their calls
\* interleaving at every await
NextConc ==
  \E p \in Callers :
    \/ CallAddSnooze(p, Users, ConcRecords, MaxStored)
    \/ CallRemoveSnooze(p, Users, ConcRecords)
    \/ AddGet(p, MaxStored)
    \/ AddSet(p)
    \/ RemoveGet(p)
    \/ RemoveSet(p)
    \/ RemoveReget(p)

SpecConc == Init /\ [][NextConc]_vars

----------------------------------------------------------------------------
(* Properties *)

IsSorted(list) ==
  \A i \in 1..(Len(list) - 1) : list[i].notifyAt <= list[i + 1].notifyAt

\* how many times record r occurs in list
CountOf(list, r) == Cardinality({i \in 1..Len(list) : list[i] = r})

\* how many records of list carry the id i
CountOfId(list, i) == Cardinality({k \in 1..Len(list) : list[k].id = i})

\* the list stored under user, as stored
RawList(storage, user) == IF user \in DOMAIN storage THEN storage[user] ELSE <<>>

\* list without the records whose id is i, in the order of list
WithoutId(list, i) == SelectSeq(list, LAMBDA s : s.id # i)

\* the stored counter, 0 when none is stored
CounterOf(storage) ==
  IF SK_BADGE_COUNTER \in DOMAIN storage THEN storage[SK_BADGE_COUNTER] ELSE 0

IsPrefix(prefix, str) ==
  /\ Len(prefix) <= Len(str)
  /\ \A i \in 1..Len(prefix) : prefix[i] = str[i]

Returned(p, f) == pc[p] = "done" /\ op[p] = f

AllRecords == Records \cup ListRecords \cup UrlRecords \cup ConcRecords

\* C1: the list addSnooze, removeSnooze and updateSnooze return is sorted
\* ascending by notifyAt.
C1_ReturnedListSorted ==
  \A p \in Callers :
    (pc[p] = "done" /\ op[p] \in {"addSnooze", "removeSnooze", "updateSnooze"})
      => IsSorted(ret[p])

\* addSnooze returned a list of three in another order than the one it persisted
C1_Witness ==
  \E p \in Callers :
    /\ Returned(p, "addSnooze")
    /\ Len(ret[p]) = 3
    /\ ~IsSorted(RawList(sync, userId[p]))
    /\ ret[p] # RawList(sync, userId[p])

\* C2 as stated: after addSnooze(userId, r), getSnoozeList(userId) holds exactly
\* one record equal to r.
C2_ExactlyOneEqualRecord ==
  \A p \in SeqCallers :
    Returned(p, "addSnooze")
      => CountOf(getSnoozeList(sync, userId[p]), snooze[p]) = 1

\* C2 amended: after addSnooze(userId, r), getSnoozeList(userId) holds one more
\* record equal to r than the list stored before the call (exactly one when none
\* was stored), and every other record as often as before.
C2_OneMoreEqualRecord ==
  \A p \in SeqCallers :
    Returned(p, "addSnooze")
      => \A r \in AllRecords :
           CountOf(getSnoozeList(sync, userId[p]), r)
             = CountOf(RawList(pre, userId[p]), r) + (IF r = snooze[p] THEN 1 ELSE 0)

\* addSnooze was given a record the list already held
C2_Witness ==
  \E p \in SeqCallers :
    /\ Returned(p, "addSnooze")
    /\ CountOf(RawList(pre, userId[p]), snooze[p]) = 1
    /\ CountOf(getSnoozeList(sync, userId[p]), snooze[p]) = 2

\* C3: after removeSnooze(userId, s), the list returned, which is the list
\* getSnoozeList reads, holds exactly the records stored before whose id differs
\* from s.id, in the order getSnoozeList read them in before; when no stored
\* record has the id s.id it is the list getSnoozeList read before.
C3_RemoveKeepsTheOthers ==
  \A p \in SeqCallers :
    Returned(p, "removeSnooze")
      => /\ ret[p] = WithoutId(getSnoozeList(pre, userId[p]), snooze[p].id)
         /\ getSnoozeList(sync, userId[p]) = ret[p]
         /\ \A r \in AllRecords :
              CountOf(ret[p], r)
                = IF r.id = snooze[p].id THEN 0 ELSE CountOf(RawList(pre, userId[p]), r)
         /\ CountOfId(RawList(pre, userId[p]), snooze[p].id) = 0
              => ret[p] = getSnoozeList(pre, userId[p])

\* removeSnooze was given a record that differs from the stored record of its id,
\* and the list held two records of another id
C3_Witness ==
  \E p \in SeqCallers :
    /\ Returned(p, "removeSnooze")
    /\ CountOfId(RawList(pre, userId[p]), snooze[p].id) = 1
    /\ CountOf(RawList(pre, userId[p]), snooze[p]) = 0
    /\ Len(RawList(pre, userId[p])) = 3
    /\ Len(ret[p]) = 2

\* C4: after updateSnooze(userId, r), the list holds r for every stored record
\* whose id is r.id and every other record as before, the others in the order
\* they had; when no stored record has the id r.id the list is the one read
\* before and r is not in it.
C4_UpdateReplacesById ==
  \A p \in SeqCallers :
    Returned(p, "updateSnooze")
      => LET before == getSnoozeList(pre, userId[p])
             w == snooze[p]
         IN  /\ getSnoozeList(sync, userId[p]) = ret[p]
             /\ \A r \in AllRecords :
                  CountOf(ret[p], r)
                    = IF r = w THEN CountOfId(before, w.id)
                      ELSE IF r.id = w.id THEN 0
                      ELSE CountOf(before, r)
             /\ WithoutId(ret[p], w.id) = WithoutId(before, w.id)
             /\ CountOfId(before, w.id) = 0
                  => (ret[p] = before /\ CountOf(ret[p], w) = 0)

\* updateSnooze replaced a stored record by one with another notifyAt, which
\* moved it among the records of another id
C4_Witness ==
  \E p \in SeqCallers :
    /\ Returned(p, "updateSnooze")
    /\ CountOfId(RawList(pre, userId[p]), snooze[p].id) = 1
    /\ CountOf(RawList(pre, userId[p]), snooze[p]) = 0
    /\ CountOf(ret[p], snooze[p]) = 1
    /\ Len(ret[p]) = 3
    /\ ret[p] # RawList(sync, userId[p])

\* C5: removeSnooze changes the stored badge counter and sends a badge-update
\* message only when a record it removed from the stored list had badgeCount
\* set; otherwise the stored counter is as before and no message is sent.
C5_BadgeOnlyForRemovedRecord ==
  \A p \in SeqCallers :
    (/\ Returned(p, "removeSnooze")
     /\ ~\E i \in 1..Len(RawList(pre, userId[p])) :
            /\ RawList(pre, userId[p])[i].id = snooze[p].id
            /\ RawList(pre, userId[p])[i].badgeCount)
      => /\ sent[p] = <<>>
         /\ (SK_BADGE_COUNTER \in DOMAIN sync) = (SK_BADGE_COUNTER \in DOMAIN pre)
         /\ CounterOf(sync) = CounterOf(pre)

\* C6: removeSnooze of a record with badgeCount set, from the counter value c
\* (0 when none is stored), leaves the stored counter at c - 1 and sends exactly
\* one badge-update message, with payload c - 1; when the message is sent the
\* list and the counter are already persisted.
C6_RemoveDecrementsThenSends ==
  \A p \in SeqCallers :
    (op[p] = "removeSnooze" /\ snooze[p].badgeCount)
      => LET c == CounterOf(pre)
             message == [action |-> ACTION_UPDATE_BADGE_COUNTER, msg |-> c - 1]
         IN  /\ pc[p] = "done"
                  => (sent[p] = <<message>> /\ SK_BADGE_COUNTER \in DOMAIN sync
                      /\ sync[SK_BADGE_COUNTER] = c - 1)
             /\ sent[p] # <<>>
                  => /\ sent[p] = <<message>>
                     /\ SK_BADGE_COUNTER \in DOMAIN sync
                     /\ sync[SK_BADGE_COUNTER] = c - 1
                     /\ userId[p] \in DOMAIN sync
                     /\ sync[userId[p]] = WithoutId(getSnoozeList(pre, userId[p]), snooze[p].id)

\* the counter went from 3 to 2 and the message carried 2
C6_Witness ==
  \E p \in SeqCallers :
    /\ Returned(p, "removeSnooze")
    /\ snooze[p].badgeCount
    /\ SK_BADGE_COUNTER \in DOMAIN pre
    /\ pre[SK_BADGE_COUNTER] = 3
    /\ sync[SK_BADGE_COUNTER] = 2
    /\ Len(sent[p]) = 1
    /\ sent[p][1].msg = 2
    /\ Len(RawList(pre, userId[p])) = 2
    /\ Len(RawList(sync, userId[p])) = 1

\* C7: checkUrlAlreadySnoozed(userId, url) returns true if and only if the list
\* holds a record such that url is a prefix of its url or its url is a prefix of
\* url.
C7_TrueIffPrefixEitherWay ==
  \A p \in SeqCallers :
    Returned(p, "checkUrlAlreadySnoozed")
      => (ret[p] <=> \E i \in 1..Len(RawList(sync, userId[p])) :
                       \/ IsPrefix(url[p], RawList(sync, userId[p])[i].url)
                       \/ IsPrefix(RawList(sync, userId[p])[i].url, url[p]))

\* C8: incrementBadgeCounter(delta) returns the previous counter value (0 when
\* none is stored) plus delta, and stores the value it returns: 1 on a fresh
\* store, and 0 for a following incrementBadgeCounter(-1).
C8_IncrementReturnsAndStores ==
  \A p \in SeqCallers :
    Returned(p, "incrementBadgeCounter")
      => /\ ret[p] = CounterOf(pre) + increment[p]
         /\ SK_BADGE_COUNTER \in DOMAIN sync
         /\ sync[SK_BADGE_COUNTER] = ret[p]
         /\ (SK_BADGE_COUNTER \notin DOMAIN pre /\ increment[p] = 1) => ret[p] = 1
         /\ (CounterOf(pre) = 1 /\ increment[p] = -1) => ret[p] = 0

\* incrementBadgeCounter() on a store that holds no counter returned 1
C8_Witness ==
  \E p \in SeqCallers :
    /\ Returned(p, "incrementBadgeCounter")
    /\ SK_BADGE_COUNTER \notin DOMAIN pre
    /\ increment[p] = 1
    /\ ret[p] = 1
    /\ sync[SK_BADGE_COUNTER] = 1

\* C9 as stated: in every state the list persisted under each userId is sorted
\* ascending by notifyAt.
C9_PersistedListSorted ==
  \A u \in Users : IsSorted(RawList(sync, u))

\* C9 amended: every list removeSnooze persists is sorted ascending by notifyAt;
\* a list addSnooze or updateSnooze persists is sorted apart from the records
\* that carry the id of the call's argument (the record appended, the records
\* replaced); no other step changes a persisted list.
C9_PersistedSortedButArgument ==
  [][\A p \in SeqCallers :
       /\ (pc[p] = "removeSet" /\ pc'[p] # pc[p])
            => IsSorted(RawList(sync', userId[p]))
       /\ (pc[p] \in {"addSet", "updateSet"} /\ pc'[p] # pc[p])
            => IsSorted(WithoutId(RawList(sync', userId[p]), snooze[p].id))
       /\ \A u \in Users :
            RawList(sync', u) # RawList(sync, u)
              => (u = userId[p] /\ pc[p] \in {"addSet", "updateSet", "removeSet"})]_vars

\* addSnooze has persisted a list of three that is not sorted: the appended
\* record is out of place behind two records of another id
C9_Witness ==
  \E p \in SeqCallers :
    /\ Returned(p, "addSnooze")
    /\ Len(RawList(sync, userId[p])) = 3
    /\ Len(WithoutId(RawList(sync, userId[p]), snooze[p].id)) = 2
    /\ RawList(sync, userId[p])[2].notifyAt > snooze[p].notifyAt

\* C10: when two addSnooze calls for the same user have both completed, the
\* persisted list is the list one of them wrote (what it read plus its own
\* record): the later write replaces the earlier one, so a state where both have
\* completed and the list holds only one of the two records is reachable.
C10_LaterWriteReplaces ==
  \A p, q \in Callers :
    (/\ p # q
     /\ Returned(p, "addSnooze")
     /\ Returned(q, "addSnooze")
     /\ userId[p] = userId[q])
      => getSnoozeList(sync, userId[p]) \in {ret[p], ret[q]}

\* both calls were made on the empty store and read the empty list, both
\* completed, and the persisted list holds one of the two added records only
C10_Witness ==
  \E p, q \in Callers :
    /\ p # q
    /\ Returned(p, "addSnooze")
    /\ Returned(q, "addSnooze")
    /\ userId[p] = userId[q]
    /\ snooze[p] # snooze[q]
    /\ DOMAIN pre = {}
    /\ ret[p] = <<snooze[p]>>
    /\ ret[q] = <<snooze[q]>>
    /\ RawList(sync, userId[p]) = <<snooze[q]>>

====
